---- MODULE Spec2Model ----
(***************************************************************************)
(* A model of the send_cells crate: the runtime-checked SendCell and       *)
(* SendFuture (src/src/send_cell.rs), the mutex-protected SyncCell         *)
(* (src/src/sync_cell.rs) and the unchecked leaves they are built on       *)
(* (src/src/unsafe_send_cell.rs, src/src/unsafe_sync_cell.rs).             *)
(*                                                                         *)
(* Panics unwind (the crate's tests rely on catch_unwind and on join()     *)
(* returning Err).  A panic raised by a destructor while the thread is     *)
(* already unwinding aborts the process.  When Drop::drop of a struct      *)
(* panics, the drop glue still drops the struct's fields while unwinding.  *)
(***************************************************************************)
EXTENDS Integers, Sequences, FiniteSets, TLC

\* ------------------------------------------------------------------ bounds
NThreads == 2
MaxVal == 1

Threads == 1..NThreads
Vals == 0..MaxVal

\* ---------------------------------------------------------- value domains
\* Option<X>: None is the empty sequence, Some(x) the one-element sequence.
None == <<>>
Some(x) == <<x>>

\* The values of the wrapped type T: plain data, or a suspendable
\* computation shaped like tests::NonSendFuture (a ready flag and an output).
PlainValues == [v : Vals]
FutureValues == [ready : BOOLEAN, out : Vals]
TValues == PlainValues \cup FutureValues
IsFuture(x) == "ready" \in DOMAIN x

\* thread::current().id(), evaluated by the thread t that executes the call.
current_id(t) == t

\* -------------------------------------------------------- UnsafeSendCell<T>
\* pub struct UnsafeSendCell<T>(T): a single-field holder.
UnsafeSendCell_new_unchecked(value) == [f0 |-> value]
UnsafeSendCell_get(self) == self.f0
UnsafeSendCell_get_mut(self) == self.f0
UnsafeSendCell_into_inner(self) == self.f0

\* Writing w through the &mut T that UnsafeSendCell::get_mut returns.
UnsafeSendCell_store(self, w) == [self EXCEPT !.f0 = w]

\* ----------------------------------------------------- the wrapped future
\* <NonSendFuture as Future>::poll: Pending once, then Ready(out).
Future_poll(fut) ==
  IF fut.ready
    THEN [poll |-> "Ready", out |-> Some(fut.out), fut |-> fut]
    ELSE [poll |-> "Pending", out |-> None, fut |-> [fut EXCEPT !.ready = TRUE]]

\* ------------------------------------------------------------- SendCell<T>
\* pub struct SendCell<T> { inner: Option<UnsafeSendCell<T>>, thread_id }
\* std::mem::needs_drop::<T>() is a property of the type T; the model keeps
\* it beside the struct as needs_drop.

\* What a call produced: outcome is "ok" (returned), "panic" (the calling
\* context failed and unwound) or "abort" (a panic inside a destructor that
\* ran while unwinding: the process is terminated).  events lists, in order,
\* the panics raised and the teardowns (T's destructor) run by the call;
\* torn is the thread a teardown ran on, 0 when none ran.
Returned(ret) == [outcome |-> "ok", ret |-> ret, events |-> <<>>, torn |-> 0]
Panicked(events, torn) ==
  [outcome |-> "panic", ret |-> None, events |-> events, torn |-> torn]
Aborted(events) ==
  [outcome |-> "abort", ret |-> None, events |-> events, torn |-> 0]

\* Faulty variant of SendCell::new: records one fixed thread instead of the
\* constructing thread.
SendCell_new_fixed_thread(value, t) ==
  [inner |-> Some(UnsafeSendCell_new_unchecked(value)), thread_id |-> current_id(1)]

\* SendCell::new
SendCell_new(value, t) ==
  [inner |-> Some(UnsafeSendCell_new_unchecked(value)), thread_id |-> current_id(t)]

\* SendCell::get_unchecked
SendCell_get_unchecked(self) ==
  IF self.inner = None
    THEN Panicked(<<"panic">>, 0)
    ELSE Returned(Some(UnsafeSendCell_get(self.inner[1])))

\* Faulty variant of SendCell::get: it fails on every thread.
SendCell_get_refusing(self, t) == Panicked(<<"panic">>, 0)

\* Faulty variant of SendCell::get: the assert_eq! is missing.
SendCell_get_unasserted(self, t) == SendCell_get_unchecked(self)

\* SendCell::get
SendCell_get(self, t) ==
  IF self.thread_id # current_id(t)
    THEN Panicked(<<"panic">>, 0)
    ELSE SendCell_get_unchecked(self)

\* SendCell::get_unchecked_mut
SendCell_get_unchecked_mut(self) ==
  IF self.inner = None
    THEN Panicked(<<"panic">>, 0)
    ELSE Returned(Some(UnsafeSendCell_get_mut(self.inner[1])))

\* SendCell::get_mut
SendCell_get_mut(self, t) ==
  IF self.thread_id # current_id(t)
    THEN Panicked(<<"panic">>, 0)
    ELSE SendCell_get_unchecked_mut(self)

\* Faulty variant: the write records another thread in the cell.
SendCell_store_rerecording(self, w) ==
  [self EXCEPT !.inner = Some(UnsafeSendCell_store(self.inner[1], w)),
               !.thread_id = (@ % NThreads) + 1]

\* Faulty variant: the write takes the value out of the slot.
SendCell_store_emptying(self, w) == [self EXCEPT !.inner = None]

\* The caller assigns w through the &mut T that get_mut / get_unchecked_mut
\* returned.
SendCell_store(self, w) ==
  [self EXCEPT !.inner = Some(UnsafeSendCell_store(self.inner[1], w))]

\* Faulty variant of Drop::drop: the assert_eq! is missing.
SendCell_drop_unasserted(self, needs_drop, t) == TRUE

\* Faulty variant of Drop::drop: an emptied cell is not checked.
SendCell_drop_when_populated(self, needs_drop, t) ==
  IF needs_drop /\ self.inner # None THEN self.thread_id = current_id(t) ELSE TRUE

\* <SendCell<T> as Drop>::drop: TRUE when it returns, FALSE when its
\* assert_eq! panics.
SendCell_drop(self, needs_drop, t) ==
  IF needs_drop THEN self.thread_id = current_id(t) ELSE TRUE

\* Dropping a T on thread t: its destructor runs when the type has one.
Teardown(needs_drop, t) ==
  [events |-> IF needs_drop THEN <<"teardown">> ELSE <<>>,
   torn |-> IF needs_drop THEN t ELSE 0]

\* The drop glue of a SendCell<T> on thread t: Drop::drop, then the fields
\* (also when Drop::drop panicked, while that panic unwinds).  panicking
\* says whether the thread is already unwinding from an earlier panic.
SendCell_drop_glue(self, needs_drop, t, panicking) ==
  LET fields == IF self.inner = None
                  THEN Teardown(FALSE, t)
                  ELSE Teardown(needs_drop, t)
  IN  IF SendCell_drop(self, needs_drop, t)
        THEN [outcome |-> "ok", events |-> fields.events, torn |-> fields.torn]
        ELSE IF panicking
          THEN [outcome |-> "abort", events |-> <<"abort">>, torn |-> 0]
          ELSE [outcome |-> "panic", events |-> <<"panic">> \o fields.events,
                torn |-> fields.torn]

\* SendCell::into_unchecked_inner.  self is dropped, emptied, when the
\* function ends.  When that drop panics the value about to be returned is
\* either dropped while unwinding or leaked, depending on the compiler
\* (drops_ret).
SendCell_into_unchecked_inner(self, needs_drop, t, drops_ret) ==
  LET emptied == [self EXCEPT !.inner = None]
  IN  IF self.inner = None
        THEN LET g == SendCell_drop_glue(emptied, needs_drop, t, TRUE)
             IN  IF g.outcome = "abort"
                   THEN Aborted(<<"panic">> \o g.events)
                   ELSE Panicked(<<"panic">> \o g.events, g.torn)
        ELSE LET value == UnsafeSendCell_into_inner(self.inner[1])
                 g == SendCell_drop_glue(emptied, needs_drop, t, FALSE)
                 r == Teardown(needs_drop /\ drops_ret, t)
             IN  IF g.outcome = "ok"
                   THEN Returned(Some(value))
                   ELSE Panicked(g.events \o r.events, r.torn)

\* SendCell::into_inner
SendCell_into_inner(self, needs_drop, t, drops_ret) ==
  IF self.thread_id # current_id(t)
    THEN LET g == SendCell_drop_glue(self, needs_drop, t, TRUE)
         IN  IF g.outcome = "abort"
               THEN Aborted(<<"panic">> \o g.events)
               ELSE Panicked(<<"panic">> \o g.events, g.torn)
    ELSE SendCell_into_unchecked_inner(self, needs_drop, t, drops_ret)

\* Faulty variant: the derived cell does not carry the identity of its source.
SendCell_preserving_other_thread(self, new) ==
  [inner |-> Some(UnsafeSendCell_new_unchecked(new)),
   thread_id |-> (self.thread_id % NThreads) + 1]

\* SendCell::preserving_cell_thread
SendCell_preserving_cell_thread(self, new) ==
  [inner |-> Some(UnsafeSendCell_new_unchecked(new)), thread_id |-> self.thread_id]

\* Faulty variant: the new cell holds a default value, not a copy.
SendCell_copying_default(self) ==
  LET r == SendCell_get_unchecked(self)
  IN  IF r.outcome = "ok"
        THEN Returned(Some(SendCell_preserving_cell_thread(self, [v |-> 0])))
        ELSE r

\* SendCell::copying (T: Copy)
SendCell_copying(self) ==
  LET r == SendCell_get_unchecked(self)
  IN  IF r.outcome = "ok"
        THEN Returned(Some(SendCell_preserving_cell_thread(self, r.ret[1])))
        ELSE r

\* Faulty variant of as_ref: it goes through get_unchecked.
SendCell_as_ref_unchecked(self, t) == SendCell_get_unchecked(self)

\* <SendCell<T> as AsRef<T>>::as_ref: self.get()
SendCell_as_ref(self, t) == SendCell_get(self, t)

\* <SendCell<T> as AsMut<T>>::as_mut: self.get_mut()
SendCell_as_mut(self, t) == SendCell_get_mut(self, t)

\* <SendCell<T> as Deref>::deref: self.get()
SendCell_deref(self, t) == SendCell_get(self, t)

\* <SendCell<T> as DerefMut>::deref_mut: self.get_mut()
SendCell_deref_mut(self, t) == SendCell_get_mut(self, t)

\* <T as Debug>::fmt of a plain value: the text of the number.
T_fmt(x) == ToString(x.v)

\* <SendCell<T> as Debug>::fmt: self.get().fmt(f)
SendCell_fmt(self, t) ==
  LET r == SendCell_get(self, t)
  IN  IF r.outcome = "ok" THEN Returned(Some(T_fmt(r.ret[1]))) ELSE r

\* ----------------------------------------------------------- SendFuture<T>
\* pub struct SendFuture<T> { inner: UnsafeSendCell<T>, thread_id }
\* SendFuture has no Drop impl: its drop glue drops the fields.
SendFuture_drop_glue(self, needs_drop, t) ==
  LET fields == Teardown(needs_drop, t)
  IN  [outcome |-> "ok", events |-> fields.events, torn |-> fields.torn]

\* Faulty variant: the future records the thread that calls into_future.
SendCell_into_future_rerecorded(self, needs_drop, t, drops_ret) ==
  LET emptied == [self EXCEPT !.inner = None]
  IN  IF self.inner = None
        THEN Panicked(<<"panic">>, 0)
        ELSE LET fut == [inner |-> self.inner[1], thread_id |-> current_id(t)]
                 g == SendCell_drop_glue(emptied, needs_drop, t, FALSE)
             IN  IF g.outcome = "ok"
                   THEN Returned(Some(fut))
                   ELSE Panicked(g.events, 0)

\* SendCell::into_future.  The emptied self is dropped when the function
\* ends; when that drop panics the SendFuture about to be returned is either
\* dropped while unwinding or leaked (drops_ret).
SendCell_into_future(self, needs_drop, t, drops_ret) ==
  LET emptied == [self EXCEPT !.inner = None]
  IN  IF self.inner = None
        THEN LET g == SendCell_drop_glue(emptied, needs_drop, t, TRUE)
             IN  IF g.outcome = "abort"
                   THEN Aborted(<<"panic">> \o g.events)
                   ELSE Panicked(<<"panic">> \o g.events, g.torn)
        ELSE LET fut == [inner |-> self.inner[1], thread_id |-> self.thread_id]
                 g == SendCell_drop_glue(emptied, needs_drop, t, FALSE)
                 r == IF drops_ret
                        THEN SendFuture_drop_glue(fut, needs_drop, t)
                        ELSE SendFuture_drop_glue(fut, FALSE, t)
             IN  IF g.outcome = "ok"
                   THEN Returned(Some(fut))
                   ELSE Panicked(g.events \o r.events, r.torn)

\* Faulty variant of poll: the assert_eq! is missing.
SendFuture_poll_unasserted(self, t) ==
  LET p == Future_poll(UnsafeSendCell_get_mut(self.inner))
  IN  [res |-> Returned(Some([poll |-> p.poll, out |-> p.out])),
       self |-> [self EXCEPT !.inner = UnsafeSendCell_store(self.inner, p.fut)]]

\* Faulty variant of poll: the assertion is inverted (assert_ne!).
SendFuture_poll_inverted(self, t) ==
  IF self.thread_id = current_id(t)
    THEN [res |-> Panicked(<<"panic">>, 0), self |-> self]
    ELSE SendFuture_poll_unasserted(self, t)

\* <SendFuture<T> as Future>::poll: the result, and the future afterwards.
SendFuture_poll(self, t) ==
  IF self.thread_id # current_id(t)
    THEN [res |-> Panicked(<<"panic">>, 0), self |-> self]
    ELSE LET p == Future_poll(UnsafeSendCell_get_mut(self.inner))
         IN  [res |-> Returned(Some([poll |-> p.poll, out |-> p.out])),
              self |-> [self EXCEPT !.inner = UnsafeSendCell_store(self.inner, p.fut)]]

\* ------------------------------------- UnsafeSendCell<T>: the other methods
\* Faulty variant of UnsafeSendCell::new: the assert! is missing.
UnsafeSendCell_new_unasserted(value, needs_drop, t) ==
  Returned(Some(UnsafeSendCell_new_unchecked(value)))

\* Faulty variant of UnsafeSendCell::new: the assertion is inverted.
UnsafeSendCell_new_inverted(value, needs_drop, t) ==
  IF needs_drop
    THEN Returned(Some(UnsafeSendCell_new_unchecked(value)))
    ELSE Panicked(<<"panic">>, 0)

\* UnsafeSendCell::new, on thread t: assert!(!needs_drop::<T>()).  When the
\* assertion fails the argument is dropped while the panic unwinds.
UnsafeSendCell_new(value, needs_drop, t) ==
  IF needs_drop
    THEN Panicked(<<"panic">> \o Teardown(needs_drop, t).events,
                  Teardown(needs_drop, t).torn)
    ELSE Returned(Some(UnsafeSendCell_new_unchecked(value)))

\* <UnsafeSendCell<T> as From<T>>::from (Default::default is from the
\* default value)
UnsafeSendCell_from(value) == [f0 |-> value]

\* UnsafeSendCell::into_future
UnsafeSendCell_into_future(self) == [f0 |-> self.f0]

\* <UnsafeSendCell<T> as Debug>::fmt / <UnsafeSyncCell<T> as Debug>::fmt:
\* the name of the wrapper and of the type, never the value.
Unsafe_fmt(kind) ==
  IF kind = "unsafe_sync" THEN "SyncCell(T)" ELSE "UnsafeSendCell(T)"

\* Faulty variant of poll: the computation is not polled, Pending is returned.
UnsafeSendFuture_poll_stuck(self) ==
  [res |-> Returned(Some([poll |-> "Pending", out |-> None])), self |-> self]

\* <UnsafeSendFuture<T> as Future>::poll: the result, and the future after.
UnsafeSendFuture_poll(self) ==
  LET p == Future_poll(self.f0)
  IN  [res |-> Returned(Some([poll |-> p.poll, out |-> p.out])),
       self |-> [self EXCEPT !.f0 = p.fut]]

\* ------------------------------------------------------- UnsafeSyncCell<T>
\* pub struct UnsafeSyncCell<T>(UnsafeCell<T>): a single-field holder.
UnsafeSyncCell_new(value) == [f0 |-> value]
UnsafeSyncCell_get(self) == self.f0
UnsafeSyncCell_get_mut_unchecked(self) == self.f0
UnsafeSyncCell_get_mut(self) == self.f0
UnsafeSyncCell_from(value) == [f0 |-> value]
UnsafeSyncCell_into_inner(self) == self.f0

\* Faulty variant: the write does not reach the cell (it goes to a copy).
UnsafeSyncCell_store_to_copy(self, w) == self

\* Writing w through the &mut T that get_mut_unchecked returns.
UnsafeSyncCell_store(self, w) == [self EXCEPT !.f0 = w]

\* ------------------------------------------------------------- SyncCell<T>
\* pub struct SyncCell<T> { inner: UnsafeSyncCell<T>, mutex: Mutex<()> }
\* sync: the SyncCell shared by the threads: the wrapped value and the
\*   state of its std::sync::Mutex (held: the thread holding the lock, 0
\*   when unlocked; poisoned: the poison flag).
\* th[t]: where thread t is in its current with / with_mut call, the
\*   closure it passed, and how its last call ended.
\* applied: the value the cell was created with plus the increments of the
\*   with_mut closures that have returned, and of those that failed after
\*   they had written.
\* ncalls: the number of with / with_mut calls issued so far.
VARIABLES sync, th, applied, ncalls

syncVars == <<sync, th, applied, ncalls>>

\* The SyncCells that trait methods (Debug, Display, Clone, Hash, PartialEq,
\* PartialOrd, Ord) and into_inner are called on:
\* cells[c]: the SyncCell named c (self) and whether it still exists (live:
\*   into_inner consumes it).
\* tr[t]: where thread t is in its current call: the cells whose with it
\*   nests (nest, outermost first), how many of their guards it holds
\*   (depth), whether one of them was poisoned when the call was issued, the
\*   name the result of a clone is bound to (target, "none" when it is
\*   dropped), and how its last call ended.
\* nops: the number of calls issued so far.
VARIABLES cells, tr, nops

traitVars == <<cells, tr, nops>>

\* ------------------------------------------------------------------- state
\* SendCells are independent objects: no operation on one reads or writes
\* another, except that preserving_cell_thread / copying make a new cell
\* from an existing one.  The model follows one object at a time; after a
\* derivation it goes on either with the source or with the derived cell.
\*
\* cell: the object followed: a SendCell ("cell"), the SendFuture made from
\*   it ("future"), or none ("none": not yet constructed, or consumed);
\*   first_poll is what the first poll that returned gave back ("none"
\*   before it); deriver is the thread that made the cell with
\*   preserving_cell_thread / copying (0 for a cell made by SendCell::new).
\* creator: the thread that constructed the object with SendCell::new (for
\*   a cell made by preserving_cell_thread / copying: the creator of its
\*   source); 0 when there is no object.
\* written: the value the cell was constructed with, or the value last
\*   assigned through get_mut / get_unchecked_mut.
\* aborted: the process was terminated by a panic inside a destructor.
\* last: the most recent call: who called what, what the target had
\*   recorded, who had created it and what had last been written to it, and
\*   what the call produced (torn: the thread on which the call ran the
\*   wrapped value's destructor, 0 when it ran none).
VARIABLES cell, creator, written, aborted, last

sendVars == <<cell, creator, written, aborted, last>>

NoObject ==
  [kind |-> "none", obj |-> None, needs_drop |-> FALSE, first_poll |-> "none",
   deriver |-> 0]

NoCall ==
  [op |-> "none", t |-> 0, recorded |-> 0, creator |-> 0, written |-> None,
   needs_drop |-> FALSE, deriver |-> 0,
   outcome |-> "ok", ret |-> None, events |-> <<>>, torn |-> 0]

Call(op, t, r) ==
  [op |-> op, t |-> t,
   recorded |-> IF cell.obj = None THEN 0 ELSE cell.obj[1].thread_id,
   creator |-> creator,
   written |-> written,
   needs_drop |-> cell.needs_drop,
   deriver |-> cell.deriver,
   outcome |-> r.outcome, ret |-> r.ret, events |-> r.events, torn |-> r.torn]

IsCell == cell.kind = "cell"
IsFut == cell.kind = "future"
Obj == cell.obj[1]

\* The value held by the cell (the slot of a live cell is populated).
Held == UnsafeSendCell_get(Obj.inner[1])

\* The values of the same type as x.
SameType(x) == IF IsFuture(x) THEN FutureValues ELSE PlainValues

\* T: Copy.  A Copy type has no destructor.
IsCopy == ~cell.needs_drop /\ ~IsFuture(Held)

SendInit ==
  /\ cell = NoObject
  /\ creator = 0
  /\ written = None
  /\ aborted = FALSE
  /\ last = NoCall

\* A consuming call ended: the object is gone; an abort ends the process.
Consumed(r) ==
  /\ cell' = NoObject
  /\ creator' = 0
  /\ written' = None
  /\ aborted' = (r.outcome = "abort")

\* let cell = SendCell::new(value), on thread t
New(t, value, needs_drop) ==
  /\ ~aborted /\ cell.kind = "none"
  /\ cell' = [kind |-> "cell", obj |-> Some(SendCell_new(value, t)),
              needs_drop |-> needs_drop, first_poll |-> "none", deriver |-> 0]
  /\ creator' = t
  /\ written' = Some(value)
  /\ last' = [Call("new", t, Returned(None)) EXCEPT
       !.needs_drop = needs_drop, !.creator = t, !.written = Some(value),
       !.recorded = SendCell_new(value, t).thread_id]
  /\ UNCHANGED aborted
  /\ UNCHANGED <<syncVars, traitVars>>

\* cell.get(), on thread t
Get(t) ==
  /\ ~aborted /\ IsCell
  /\ last' = Call("get", t, SendCell_get(Obj, t))
  /\ UNCHANGED <<cell, creator, written, aborted>>
  /\ UNCHANGED <<syncVars, traitVars>>

\* *cell.get_mut() = w, on thread t
GetMut(t, w) ==
  /\ ~aborted /\ IsCell
  /\ w \in SameType(Held)
  /\ LET r == SendCell_get_mut(Obj, t)
     IN  /\ last' = Call("get_mut", t, r)
         /\ IF r.outcome = "ok"
              THEN /\ cell' = [cell EXCEPT !.obj = Some(SendCell_store(Obj, w))]
                   /\ written' = Some(w)
              ELSE UNCHANGED <<cell, written>>
  /\ UNCHANGED <<creator, aborted>>
  /\ UNCHANGED <<syncVars, traitVars>>

\* cell.into_inner(), on thread t
IntoInner(t, drops_ret) ==
  /\ ~aborted /\ IsCell
  /\ LET r == SendCell_into_inner(Obj, cell.needs_drop, t, drops_ret)
     IN  /\ last' = Call("into_inner", t, r)
         /\ Consumed(r)
  /\ UNCHANGED <<syncVars, traitVars>>

\* unsafe { cell.get_unchecked() }, on thread t
GetUnchecked(t) ==
  /\ ~aborted /\ IsCell
  /\ last' = Call("get_unchecked", t, SendCell_get_unchecked(Obj))
  /\ UNCHANGED <<cell, creator, written, aborted>>
  /\ UNCHANGED <<syncVars, traitVars>>

\* unsafe { *cell.get_unchecked_mut() = w }, on thread t
GetUncheckedMut(t, w) ==
  /\ ~aborted /\ IsCell
  /\ w \in SameType(Held)
  /\ LET r == SendCell_get_unchecked_mut(Obj)
     IN  /\ last' = Call("get_unchecked_mut", t, r)
         /\ IF r.outcome = "ok"
              THEN /\ cell' = [cell EXCEPT !.obj = Some(SendCell_store(Obj, w))]
                   /\ written' = Some(w)
              ELSE UNCHANGED <<cell, written>>
  /\ UNCHANGED <<creator, aborted>>
  /\ UNCHANGED <<syncVars, traitVars>>

\* unsafe { cell.into_unchecked_inner() }, on thread t
IntoUncheckedInner(t, drops_ret) ==
  /\ ~aborted /\ IsCell
  /\ LET r == SendCell_into_unchecked_inner(Obj, cell.needs_drop, t, drops_ret)
     IN  /\ last' = Call("into_unchecked_inner", t, r)
         /\ Consumed(r)
  /\ UNCHANGED <<syncVars, traitVars>>

\* let d = unsafe { cell.preserving_cell_thread(value) }, on thread t; the
\* model goes on with d (follow) or with cell.
PreservingCellThread(t, value, needs_drop, follow) ==
  /\ ~aborted /\ IsCell
  /\ LET made == SendCell_preserving_cell_thread(Obj, value)
     IN  /\ last' = Call("preserving_cell_thread", t, Returned(Some(made)))
         /\ IF follow
              THEN /\ cell' = [kind |-> "cell", obj |-> Some(made),
                               needs_drop |-> needs_drop, first_poll |-> "none",
                               deriver |-> t]
                   /\ written' = Some(value)
              ELSE UNCHANGED <<cell, written>>
  /\ UNCHANGED <<creator, aborted>>
  /\ UNCHANGED <<syncVars, traitVars>>

\* let d = cell.copying(), on thread t; the model goes on with d (follow)
\* or with cell.
Copying(t, follow) ==
  /\ ~aborted /\ IsCell /\ IsCopy
  /\ LET r == SendCell_copying(Obj)
     IN  /\ last' = Call("copying", t, r)
         /\ IF r.outcome = "ok" /\ follow
              THEN /\ cell' = [kind |-> "cell", obj |-> r.ret, needs_drop |-> FALSE,
                               first_poll |-> "none", deriver |-> t]
                   /\ written' = Some(UnsafeSendCell_get(r.ret[1].inner[1]))
              ELSE UNCHANGED <<cell, written>>
  /\ UNCHANGED <<creator, aborted>>
  /\ UNCHANGED <<syncVars, traitVars>>

\* let fut = cell.into_future(), on thread t; the model goes on with fut
IntoFuture(t, drops_ret) ==
  /\ ~aborted /\ IsCell /\ IsFuture(Held)
  /\ LET r == SendCell_into_future(Obj, cell.needs_drop, t, drops_ret)
     IN  /\ last' = Call("into_future", t, r)
         /\ IF r.outcome = "ok"
              THEN /\ cell' = [kind |-> "future", obj |-> r.ret,
                               needs_drop |-> cell.needs_drop, first_poll |-> "none",
                               deriver |-> cell.deriver]
                   /\ UNCHANGED <<creator, written, aborted>>
              ELSE Consumed(r)
  /\ UNCHANGED <<syncVars, traitVars>>

\* drop(cell), on thread t
DropCell(t) ==
  /\ ~aborted /\ IsCell
  /\ LET g == SendCell_drop_glue(Obj, cell.needs_drop, t, FALSE)
         r == [outcome |-> g.outcome, ret |-> None, events |-> g.events,
               torn |-> g.torn]
     IN  /\ last' = Call("drop", t, r)
         /\ Consumed(r)
  /\ UNCHANGED <<syncVars, traitVars>>

\* Pin::new(&mut fut).poll(cx), on thread t
Poll(t) ==
  /\ ~aborted /\ IsFut
  /\ LET p == SendFuture_poll(Obj, t)
     IN  /\ last' = Call("poll", t, p.res)
         /\ cell' = [cell EXCEPT
              !.obj = Some(p.self),
              !.first_poll = IF @ = "none" /\ p.res.outcome = "ok"
                               THEN p.res.ret[1].poll ELSE @]
  /\ UNCHANGED <<creator, written, aborted>>
  /\ UNCHANGED <<syncVars, traitVars>>

\* drop(fut), on thread t
DropFuture(t) ==
  /\ ~aborted /\ IsFut
  /\ LET g == SendFuture_drop_glue(Obj, cell.needs_drop, t)
         r == [outcome |-> g.outcome, ret |-> None, events |-> g.events,
               torn |-> g.torn]
     IN  /\ last' = Call("drop_future", t, r)
         /\ Consumed(r)
  /\ UNCHANGED <<syncVars, traitVars>>

\* cell.as_ref(), on thread t
AsRef(t) ==
  /\ ~aborted /\ IsCell
  /\ last' = Call("as_ref", t, SendCell_as_ref(Obj, t))
  /\ UNCHANGED <<cell, creator, written, aborted>>
  /\ UNCHANGED <<syncVars, traitVars>>

\* &*cell, on thread t
Deref(t) ==
  /\ ~aborted /\ IsCell
  /\ last' = Call("deref", t, SendCell_deref(Obj, t))
  /\ UNCHANGED <<cell, creator, written, aborted>>
  /\ UNCHANGED <<syncVars, traitVars>>

\* format!("{:?}", cell), on thread t (T: Debug)
DebugFmt(t) ==
  /\ ~aborted /\ IsCell /\ ~IsFuture(Held)
  /\ last' = Call("fmt", t, SendCell_fmt(Obj, t))
  /\ UNCHANGED <<cell, creator, written, aborted>>
  /\ UNCHANGED <<syncVars, traitVars>>

\* *cell.as_mut() = w (by_deref = FALSE) or *cell = w through DerefMut, on
\* thread t
AsMut(t, w, by_deref) ==
  /\ ~aborted /\ IsCell
  /\ w \in SameType(Held)
  /\ LET r == IF by_deref THEN SendCell_deref_mut(Obj, t)
                          ELSE SendCell_as_mut(Obj, t)
     IN  /\ last' = Call(IF by_deref THEN "deref_mut" ELSE "as_mut", t, r)
         /\ IF r.outcome = "ok"
              THEN /\ cell' = [cell EXCEPT !.obj = Some(SendCell_store(Obj, w))]
                   /\ written' = Some(w)
              ELSE UNCHANGED <<cell, written>>
  /\ UNCHANGED <<creator, aborted>>
  /\ UNCHANGED <<syncVars, traitVars>>

\* ---------------------------------------------- the unchecked leaf types
\* The followed object may also be an UnsafeSendCell ("unsafe_cell"), the
\* UnsafeSendFuture made from it ("unsafe_future") or an UnsafeSyncCell
\* ("unsafe_sync").  They record no thread.
IsUnsafeCell == cell.kind = "unsafe_cell"
IsUnsafeFut == cell.kind = "unsafe_future"
IsUnsafeSync == cell.kind = "unsafe_sync"
IsLeaf == IsUnsafeCell \/ IsUnsafeFut \/ IsUnsafeSync

LeafCall(op, t, r) ==
  [op |-> op, t |-> t, recorded |-> 0, creator |-> creator, written |-> written,
   needs_drop |-> cell.needs_drop, deriver |-> 0,
   outcome |-> r.outcome, ret |-> r.ret, events |-> r.events, torn |-> r.torn]

\* A leaf object holding value was constructed by thread t.
Made(kind, holder, value, needs_drop, t) ==
  /\ cell' = [kind |-> kind, obj |-> Some(holder), needs_drop |-> needs_drop,
              first_poll |-> "none", deriver |-> 0]
  /\ creator' = t
  /\ written' = Some(value)

\* let cell = UnsafeSendCell::new(value), on thread t
UnsafeNew(t, value, needs_drop) ==
  /\ ~aborted /\ cell.kind = "none"
  /\ LET r == UnsafeSendCell_new(value, needs_drop, t)
     IN  /\ last' = [LeafCall("unsafe_new", t, r) EXCEPT
              !.needs_drop = needs_drop, !.creator = t, !.written = Some(value)]
         /\ IF r.outcome = "ok"
              THEN Made("unsafe_cell", r.ret[1], value, needs_drop, t)
              ELSE UNCHANGED <<cell, creator, written>>
  /\ UNCHANGED aborted
  /\ UNCHANGED <<syncVars, traitVars>>

\* let cell = unsafe { UnsafeSendCell::new_unchecked(value) } (unchecked), or
\* UnsafeSendCell::from(value), on thread t
UnsafeNewUnchecked(t, value, needs_drop, unchecked) ==
  /\ ~aborted /\ cell.kind = "none"
  /\ LET made == IF unchecked THEN UnsafeSendCell_new_unchecked(value)
                               ELSE UnsafeSendCell_from(value)
     IN  /\ last' = [LeafCall(IF unchecked THEN "unsafe_new_unchecked"
                                            ELSE "unsafe_from", t,
                               Returned(Some(made))) EXCEPT
              !.needs_drop = needs_drop, !.creator = t, !.written = Some(value)]
         /\ Made("unsafe_cell", made, value, needs_drop, t)
  /\ UNCHANGED aborted
  /\ UNCHANGED <<syncVars, traitVars>>

\* unsafe { cell.get() }, on thread t
UnsafeGet(t) ==
  /\ ~aborted /\ IsUnsafeCell
  /\ last' = LeafCall("unsafe_get", t, Returned(Some(UnsafeSendCell_get(Obj))))
  /\ UNCHANGED <<cell, creator, written, aborted>>
  /\ UNCHANGED <<syncVars, traitVars>>

\* unsafe { *cell.get_mut() = w }, on thread t
UnsafeGetMut(t, w) ==
  /\ ~aborted /\ IsUnsafeCell
  /\ w \in SameType(UnsafeSendCell_get(Obj))
  /\ last' = LeafCall("unsafe_get_mut", t,
                      Returned(Some(UnsafeSendCell_get_mut(Obj))))
  /\ cell' = [cell EXCEPT !.obj = Some(UnsafeSendCell_store(Obj, w))]
  /\ written' = Some(w)
  /\ UNCHANGED <<creator, aborted>>
  /\ UNCHANGED <<syncVars, traitVars>>

\* unsafe { cell.into_inner() }, on thread t
UnsafeIntoInner(t) ==
  /\ ~aborted /\ IsUnsafeCell
  /\ LET r == Returned(Some(UnsafeSendCell_into_inner(Obj)))
     IN  /\ last' = LeafCall("unsafe_into_inner", t, r)
         /\ Consumed(r)
  /\ UNCHANGED <<syncVars, traitVars>>

\* let fut = unsafe { cell.into_future() }, on thread t
UnsafeIntoFuture(t) ==
  /\ ~aborted /\ IsUnsafeCell /\ IsFuture(UnsafeSendCell_get(Obj))
  /\ LET fut == UnsafeSendCell_into_future(Obj)
     IN  /\ last' = LeafCall("unsafe_into_future", t, Returned(Some(fut)))
         /\ cell' = [cell EXCEPT !.kind = "unsafe_future", !.obj = Some(fut)]
  /\ UNCHANGED <<creator, written, aborted>>
  /\ UNCHANGED <<syncVars, traitVars>>

\* Pin::new(&mut fut).poll(cx) on an UnsafeSendFuture, on thread t
UnsafePoll(t) ==
  /\ ~aborted /\ IsUnsafeFut
  /\ LET p == UnsafeSendFuture_poll(Obj)
     IN  /\ last' = LeafCall("unsafe_poll", t, p.res)
         /\ cell' = [cell EXCEPT
              !.obj = Some(p.self),
              !.first_poll = IF @ = "none" THEN p.res.ret[1].poll ELSE @]
  /\ UNCHANGED <<creator, written, aborted>>
  /\ UNCHANGED <<syncVars, traitVars>>

\* format!("{:?}", cell) on an UnsafeSendCell or an UnsafeSyncCell
UnsafeDebug(t) ==
  /\ ~aborted /\ (IsUnsafeCell \/ IsUnsafeSync)
  /\ last' = LeafCall("unsafe_fmt", t, Returned(Some(Unsafe_fmt(cell.kind))))
  /\ UNCHANGED <<cell, creator, written, aborted>>
  /\ UNCHANGED <<syncVars, traitVars>>

\* drop(x) of a leaf object, on thread t: none has a Drop impl, the wrapped
\* value is dropped.
UnsafeDrop(t) ==
  /\ ~aborted /\ IsLeaf
  /\ LET g == Teardown(cell.needs_drop, t)
         r == [outcome |-> "ok", ret |-> None, events |-> g.events,
               torn |-> g.torn]
     IN  /\ last' = LeafCall("unsafe_drop", t, r)
         /\ Consumed(r)
  /\ UNCHANGED <<syncVars, traitVars>>

\* let cell = UnsafeSyncCell::new(value) (by_new) or UnsafeSyncCell::from(value),
\* on thread t
UnsafeSyncNew(t, value, needs_drop, by_new) ==
  /\ ~aborted /\ cell.kind = "none"
  /\ LET made == IF by_new THEN UnsafeSyncCell_new(value)
                           ELSE UnsafeSyncCell_from(value)
     IN  /\ last' = [LeafCall(IF by_new THEN "unsafe_sync_new"
                                        ELSE "unsafe_sync_from", t,
                               Returned(Some(made))) EXCEPT
              !.needs_drop = needs_drop, !.creator = t, !.written = Some(value)]
         /\ Made("unsafe_sync", made, value, needs_drop, t)
  /\ UNCHANGED aborted
  /\ UNCHANGED <<syncVars, traitVars>>

\* unsafe { cell.get() } on an UnsafeSyncCell, on thread t
UnsafeSyncGet(t) ==
  /\ ~aborted /\ IsUnsafeSync
  /\ last' = LeafCall("unsafe_sync_get", t, Returned(Some(UnsafeSyncCell_get(Obj))))
  /\ UNCHANGED <<cell, creator, written, aborted>>
  /\ UNCHANGED <<syncVars, traitVars>>

\* unsafe { *cell.get_mut_unchecked() = w } (unchecked) or *cell.get_mut() = w,
\* on thread t
UnsafeSyncGetMut(t, w, unchecked) ==
  /\ ~aborted /\ IsUnsafeSync
  /\ w \in SameType(UnsafeSyncCell_get(Obj))
  /\ last' = LeafCall(IF unchecked THEN "unsafe_sync_get_mut_unchecked"
                                   ELSE "unsafe_sync_get_mut", t,
                      Returned(Some(IF unchecked
                                      THEN UnsafeSyncCell_get_mut_unchecked(Obj)
                                      ELSE UnsafeSyncCell_get_mut(Obj))))
  /\ cell' = [cell EXCEPT !.obj = Some(UnsafeSyncCell_store(Obj, w))]
  /\ written' = Some(w)
  /\ UNCHANGED <<creator, aborted>>
  /\ UNCHANGED <<syncVars, traitVars>>

\* cell.into_inner() on an UnsafeSyncCell, on thread t
UnsafeSyncIntoInner(t) ==
  /\ ~aborted /\ IsUnsafeSync
  /\ LET r == Returned(Some(UnsafeSyncCell_into_inner(Obj)))
     IN  /\ last' = LeafCall("unsafe_sync_into_inner", t, r)
         /\ Consumed(r)
  /\ UNCHANGED <<syncVars, traitVars>>

Next ==
  \/ \E t \in Threads, value \in TValues, nd \in BOOLEAN : UnsafeNew(t, value, nd)
  \/ \E t \in Threads, value \in TValues, nd \in BOOLEAN, un \in BOOLEAN :
       UnsafeNewUnchecked(t, value, nd, un)
  \/ \E t \in Threads : UnsafeGet(t)
  \/ \E t \in Threads, w \in TValues : UnsafeGetMut(t, w)
  \/ \E t \in Threads : UnsafeIntoInner(t)
  \/ \E t \in Threads : UnsafeIntoFuture(t)
  \/ \E t \in Threads : UnsafePoll(t)
  \/ \E t \in Threads : UnsafeDebug(t)
  \/ \E t \in Threads : UnsafeDrop(t)
  \/ \E t \in Threads, value \in TValues, nd \in BOOLEAN, bn \in BOOLEAN :
       UnsafeSyncNew(t, value, nd, bn)
  \/ \E t \in Threads : UnsafeSyncGet(t)
  \/ \E t \in Threads, w \in TValues, un \in BOOLEAN : UnsafeSyncGetMut(t, w, un)
  \/ \E t \in Threads : UnsafeSyncIntoInner(t)
  \/ \E t \in Threads, value \in TValues, nd \in BOOLEAN : New(t, value, nd)
  \/ \E t \in Threads : Get(t)
  \/ \E t \in Threads, w \in TValues : GetMut(t, w)
  \/ \E t \in Threads, dr \in BOOLEAN : IntoInner(t, dr)
  \/ \E t \in Threads : GetUnchecked(t)
  \/ \E t \in Threads, w \in TValues : GetUncheckedMut(t, w)
  \/ \E t \in Threads, dr \in BOOLEAN : IntoUncheckedInner(t, dr)
  \/ \E t \in Threads, value \in TValues, nd \in BOOLEAN, follow \in BOOLEAN :
       PreservingCellThread(t, value, nd, follow)
  \/ \E t \in Threads, follow \in BOOLEAN : Copying(t, follow)
  \/ \E t \in Threads, dr \in BOOLEAN : IntoFuture(t, dr)
  \/ \E t \in Threads : DropCell(t)
  \/ \E t \in Threads : Poll(t)
  \/ \E t \in Threads : DropFuture(t)

\* A SendCell used through its trait impls.
AccessNext ==
  \/ \E t \in Threads, value \in TValues, nd \in BOOLEAN : New(t, value, nd)
  \/ \E t \in Threads : AsRef(t)
  \/ \E t \in Threads : Deref(t)
  \/ \E t \in Threads : DebugFmt(t)
  \/ \E t \in Threads, w \in TValues, bd \in BOOLEAN : AsMut(t, w, bd)
  \/ \E t \in Threads : DropCell(t)

\* ------------------------------------------------- SyncCell<T>: operations
MaxCalls == 3
MaxInc == 2

\* SyncCell::new
SyncCell_new(value) ==
  [inner |-> UnsafeSyncCell_new(value), mutex |-> [held |-> 0, poisoned |-> FALSE]]

\* Faulty variant: the lock is not waited for.
SyncCell_lock_ready_always(self) == TRUE

\* self.mutex.lock() blocks while another guard is alive.
SyncCell_lock_ready(self) == self.mutex.held = 0

\* Faulty variant: the guard is dropped at once (let _ = ...), the mutex is not
\* held during the closure.
SyncCell_lock_unheld(self, t) ==
  IF self.mutex.poisoned
    THEN [outcome |-> "panic", self |-> self]
    ELSE [outcome |-> "ok", self |-> self]

\* let _guard = self.mutex.lock().unwrap(), once lock() has the mutex: on a
\* poisoned mutex lock() returns Err, unwrap() panics and the guard inside
\* the Err is dropped, which unlocks; otherwise thread t holds the guard.
SyncCell_lock(self, t) ==
  IF self.mutex.poisoned
    THEN [outcome |-> "panic", self |-> self]
    ELSE [outcome |-> "ok", self |-> [self EXCEPT !.mutex.held = t]]

\* Faulty variant: unwinding restores the value the cell had at creation.
SyncCell_unlock_rollback(self, panicking) ==
  [self EXCEPT !.mutex.held = 0, !.mutex.poisoned = @ \/ panicking,
               !.inner = IF panicking THEN UnsafeSyncCell_new(0) ELSE @]

\* Faulty variant: the guard is never dropped, the mutex stays as it is.
SyncCell_unlock_kept(self, panicking) == self

\* Faulty variant: a lock that does not poison.
SyncCell_unlock_unpoisoned(self, panicking) == [self EXCEPT !.mutex.held = 0]

\* Faulty variant: the guard is leaked (mem::forget), the mutex stays locked.
SyncCell_unlock_leaked(self, panicking) ==
  [self EXCEPT !.mutex.poisoned = @ \/ panicking]

\* _guard goes out of scope at the end of with / with_mut: the mutex is
\* unlocked, and poisoned when the guard is dropped by a panic unwinding.
SyncCell_unlock(self, panicking) ==
  [self EXCEPT !.mutex.held = 0, !.mutex.poisoned = @ \/ panicking]

\* Faulty variant: the access goes through lock().unwrap() after all.
SyncCell_with_unchecked_locking(self) ==
  IF self.mutex.poisoned
    THEN [outcome |-> "panic", ret |-> None, self |-> self]
    ELSE [outcome |-> "ok", ret |-> Some(UnsafeSyncCell_get(self.inner)),
          self |-> self]

\* SyncCell::with_unchecked: the result, and the cell afterwards.
SyncCell_with_unchecked(self) ==
  [outcome |-> "ok", ret |-> Some(UnsafeSyncCell_get(self.inner)), self |-> self]

\* SyncCell::with_mut_unchecked: the result, and the cell afterwards.
SyncCell_with_mut_unchecked(self) ==
  [outcome |-> "ok", ret |-> Some(UnsafeSyncCell_get_mut_unchecked(self.inner)),
   self |-> self]

\* Faulty variant: into_inner gives back a default value.
SyncCell_into_inner_default(self) == UnsafeSyncCell_into_inner(UnsafeSyncCell_new(0))

\* SyncCell::into_inner
SyncCell_into_inner(self) == UnsafeSyncCell_into_inner(self.inner)

\* The closures the threads pass.  "read" returns the value (with);
\* "inc" reads the counter and then writes back counter + arg (with_mut);
\* "panic" panics; "inc_panic" does what "inc" does and then panics.
Closures(op) ==
  IF op = "with" THEN {"read", "panic"} ELSE {"inc", "panic", "inc_panic"}

NoCallYet ==
  [pc |-> "idle", op |-> "none", f |-> "none", arg |-> 0, tmp |-> 0,
   outcome |-> "none", ret |-> None]

\* The call of a thread ended: it keeps what the call was and how it ended.
Ended(call, outcome, ret) ==
  [call EXCEPT !.pc = "idle", !.tmp = 0, !.outcome = outcome, !.ret = ret]

\* The closure body of thread t is executing.
InBody(t) == th[t].pc \in {"body", "body2", "raise"}

\* let cell = SyncCell::new(v), shared by threads that have made no call.
SyncInit(v) ==
  /\ sync = SyncCell_new(v)
  /\ applied = v
  /\ th = [t \in Threads |-> NoCallYet]
  /\ ncalls = 0

\* The two SyncCells a and b that the trait methods are called on.
Cells == {"a", "b"}

NoTraitCall ==
  [pc |-> "idle", op |-> "none", nest |-> <<>>, depth |-> 0, poisoned |-> FALSE,
   target |-> "none", outcome |-> "none", ret |-> None]

\* let a = SyncCell::new(va); let b = SyncCell::new(vb)
TraitInit(va, vb) ==
  /\ cells = [c \in Cells |->
       [live |-> TRUE, self |-> SyncCell_new(IF c = "a" THEN va ELSE vb)]]
  /\ tr = [t \in Threads |-> NoTraitCall]
  /\ nops = 0

\* let a = SyncCell::new(va): the name b is bound to no cell yet.
TraitInitOne(va) ==
  /\ cells = [c \in Cells |->
       [live |-> c = "a", self |-> SyncCell_new(IF c = "a" THEN va ELSE 0)]]
  /\ tr = [t \in Threads |-> NoTraitCall]
  /\ nops = 0

Init == SendInit /\ SyncInit(0) /\ TraitInit(0, 0)

SyncStart == SendInit /\ TraitInit(0, 0) /\ \E v \in Vals : SyncInit(v)

TraitStart ==
  /\ SendInit /\ SyncInit(0)
  /\ \E va \in Vals : \/ \E vb \in Vals : TraitInit(va, vb)
                      \/ TraitInitOne(va)

\* into_inner has consumed the cell: no call can be made on it any more.
SyncConsumed == \E u \in Threads : th[u].op = "into_inner"

\* Thread t calls cell.with(f) / cell.with_mut(f): it is about to lock.
With(t, f) ==
  /\ th[t].pc = "idle" /\ ncalls < MaxCalls /\ ~SyncConsumed
  /\ f \in Closures("with")
  /\ th' = [th EXCEPT ![t] =
       [pc |-> "lock", op |-> "with", f |-> f, arg |-> 0, tmp |-> 0,
        outcome |-> "none", ret |-> None]]
  /\ ncalls' = ncalls + 1
  /\ UNCHANGED <<sync, applied>>
  /\ UNCHANGED <<sendVars, traitVars>>

WithMut(t, f, arg) ==
  /\ th[t].pc = "idle" /\ ncalls < MaxCalls /\ ~SyncConsumed
  /\ f \in Closures("with_mut")
  /\ th' = [th EXCEPT ![t] =
       [pc |-> "lock", op |-> "with_mut", f |-> f, arg |-> arg, tmp |-> 0,
        outcome |-> "none", ret |-> None]]
  /\ ncalls' = ncalls + 1
  /\ UNCHANGED <<sync, applied>>
  /\ UNCHANGED <<sendVars, traitVars>>

\* cell.with(|v| *v), one of any number of such calls a thread makes.
WithAgain(t) ==
  /\ th[t].pc = "idle"
  /\ th' = [th EXCEPT ![t] =
       [pc |-> "lock", op |-> "with", f |-> "read", arg |-> 0, tmp |-> 0,
        outcome |-> "none", ret |-> None]]
  /\ UNCHANGED <<sync, applied, ncalls>>
  /\ UNCHANGED <<sendVars, traitVars>>

\* let _guard = self.mutex.lock().unwrap()
Lock(t) ==
  /\ th[t].pc = "lock"
  /\ SyncCell_lock_ready(sync)
  /\ LET r == SyncCell_lock(sync, t)
     IN  /\ sync' = r.self
         /\ th' = [th EXCEPT ![t] =
              IF r.outcome = "ok"
                THEN [@ EXCEPT !.pc = "body"]
                ELSE Ended(@, "panic", None)]
  /\ UNCHANGED <<applied, ncalls>>
  /\ UNCHANGED <<sendVars, traitVars>>

\* with(|v| *v): let value = self.inner.get(); let result = f(value)
ClosureRead(t) ==
  /\ th[t].pc = "body" /\ th[t].f = "read"
  /\ th' = [th EXCEPT ![t].pc = "ret",
                      ![t].ret = Some(UnsafeSyncCell_get(sync.inner))]
  /\ UNCHANGED <<sync, applied, ncalls>>
  /\ UNCHANGED <<sendVars, traitVars>>

\* with_mut(|v| { let tmp = *v; ... }): the closure reads the counter
ClosureLoad(t) ==
  /\ th[t].pc = "body" /\ th[t].f \in {"inc", "inc_panic"}
  /\ th' = [th EXCEPT ![t].pc = "body2",
                      ![t].tmp = UnsafeSyncCell_get_mut_unchecked(sync.inner)]
  /\ UNCHANGED <<sync, applied, ncalls>>
  /\ UNCHANGED <<sendVars, traitVars>>

\* with_mut(|v| { ...; *v = tmp + arg }): the closure writes it back
ClosureStore(t) ==
  /\ th[t].pc = "body2"
  /\ sync' = [sync EXCEPT !.inner = UnsafeSyncCell_store(@, th[t].tmp + th[t].arg)]
  /\ th' = [th EXCEPT ![t].pc = IF th[t].f = "inc_panic" THEN "raise" ELSE "ret"]
  /\ UNCHANGED <<applied, ncalls>>
  /\ UNCHANGED <<sendVars, traitVars>>

\* The closure panics: with / with_mut unwinds and _guard is dropped.
ClosurePanic(t) ==
  /\ \/ th[t].pc = "body" /\ th[t].f = "panic"
     \/ th[t].pc = "raise"
  /\ sync' = SyncCell_unlock(sync, TRUE)
  /\ th' = [th EXCEPT ![t] = Ended(@, "panic", None)]
  /\ applied' = applied + (IF th[t].pc = "raise" THEN th[t].arg ELSE 0)
  /\ UNCHANGED ncalls
  /\ UNCHANGED <<sendVars, traitVars>>

\* The closure returned: result is returned and _guard is dropped.
Return(t) ==
  /\ th[t].pc = "ret"
  /\ sync' = SyncCell_unlock(sync, FALSE)
  /\ th' = [th EXCEPT ![t] = Ended(@, "ok", @.ret)]
  /\ applied' = applied + (IF th[t].f = "inc" THEN th[t].arg ELSE 0)
  /\ UNCHANGED ncalls
  /\ UNCHANGED <<sendVars, traitVars>>

\* unsafe { cell.with_unchecked() } (mutable = FALSE) or
\* unsafe { cell.with_mut_unchecked() }, on thread t, in whatever state the
\* lock is.  What the caller does with the reference is under its own
\* safety contract.
WithUnchecked(t, mutable) ==
  /\ th[t].pc = "idle" /\ ncalls < MaxCalls /\ ~SyncConsumed
  /\ LET r == IF mutable THEN SyncCell_with_mut_unchecked(sync)
                         ELSE SyncCell_with_unchecked(sync)
     IN  /\ sync' = r.self
         /\ th' = [th EXCEPT ![t] =
              [pc |-> "idle",
               op |-> IF mutable THEN "with_mut_unchecked" ELSE "with_unchecked",
               f |-> "none", arg |-> 0, tmp |-> 0,
               outcome |-> r.outcome, ret |-> r.ret]]
  /\ ncalls' = ncalls + 1
  /\ UNCHANGED applied
  /\ UNCHANGED <<sendVars, traitVars>>

\* cell.into_inner(), on thread t: the cell is taken by value, so no call on
\* it is in progress.
SyncCellIntoInner(t) ==
  /\ \A u \in Threads : th[u].pc = "idle"
  /\ ncalls < MaxCalls /\ ~SyncConsumed
  /\ th' = [th EXCEPT ![t] =
       [pc |-> "idle", op |-> "into_inner", f |-> "none", arg |-> 0, tmp |-> 0,
        outcome |-> "ok", ret |-> Some(SyncCell_into_inner(sync))]]
  /\ ncalls' = ncalls + 1
  /\ UNCHANGED <<sync, applied>>
  /\ UNCHANGED <<sendVars, traitVars>>

SyncNext ==
  \/ \E t \in Threads, mutable \in BOOLEAN : WithUnchecked(t, mutable)
  \/ \E t \in Threads : SyncCellIntoInner(t)
  \/ \E t \in Threads, f \in {"read", "panic"} : With(t, f)
  \/ \E t \in Threads, f \in {"inc", "inc_panic"}, arg \in 1..MaxInc :
       WithMut(t, f, arg)
  \/ \E t \in Threads : WithMut(t, "panic", 1)
  \/ \E t \in Threads : Lock(t)
  \/ \E t \in Threads : ClosureRead(t)
  \/ \E t \in Threads : ClosureLoad(t)
  \/ \E t \in Threads : ClosureStore(t)
  \/ \E t \in Threads : ClosurePanic(t)
  \/ \E t \in Threads : Return(t)

\* ------------------------------------------- SyncCell<T>: trait methods
\* What the closure of a trait method computes from the value a of self and,
\* for the comparisons, the value b of other.
Ordering(a, b) == IF a < b THEN "Less" ELSE IF a = b THEN "Equal" ELSE "Greater"

\* Faulty variant: the clone wraps a default value, not a clone of the value.
Clone_closure_default(value) == SyncCell_new(0)

\* The closure of clone: |value| SyncCell::new(value.clone())
Clone_closure(value) == SyncCell_new(value)

TraitClosure(op, a, b) ==
  CASE op = "fmt" -> Some(a)
    [] op = "hash" -> Some(a)
    [] op = "clone" -> Some(Clone_closure(a))
    [] op = "with_mut" -> None
    [] op = "nested" -> None
    [] op = "eq" -> Some(a = b)
    [] op = "partial_cmp" -> Some(Some(Ordering(a, b)))
    [] op = "cmp" -> Some(Ordering(a, b))

\* A panic unwinds the call of thread t: every guard it holds is dropped
\* while panicking.
Unwind(cs, t) ==
  [c \in Cells |->
     IF cs[c].self.mutex.held = t
       THEN [cs[c] EXCEPT !.self = SyncCell_unlock(@, TRUE)]
       ELSE cs[c]]

\* Thread t calls a method that nests self.with(..) over the cells of nest.
Issue(t, op, nest) ==
  /\ tr[t].pc = "idle" /\ nops < MaxCalls
  /\ \A i \in 1..Len(nest) : cells[nest[i]].live
  /\ tr' = [tr EXCEPT ![t] =
       [pc |-> "lock", op |-> op, nest |-> nest, depth |-> 0,
        poisoned |-> \E i \in 1..Len(nest) : cells[nest[i]].self.mutex.poisoned,
        target |-> "none", outcome |-> "none", ret |-> None]]
  /\ nops' = nops + 1
  /\ UNCHANGED cells
  /\ UNCHANGED <<sendVars, syncVars>>

\* format!("{:?}", c) / format!("{}", c): self.with(|value| value.fmt(f))
Fmt(t, c) == Issue(t, "fmt", <<c>>)

\* c.clone(): self.with(|value| SyncCell::new(value.clone()))
Clone(t, c) == Issue(t, "clone", <<c>>)

\* let c = x.clone(): the clone is bound to the name c, which names no cell
\* at present (nor is another clone about to be bound to it).
CloneAs(t, x, c) ==
  /\ tr[t].pc = "idle" /\ nops < MaxCalls
  /\ cells[x].live /\ ~cells[c].live
  /\ \A u \in Threads : tr[u].pc # "idle" => tr[u].target # c
  /\ tr' = [tr EXCEPT ![t] =
       [pc |-> "lock", op |-> "clone", nest |-> <<x>>, depth |-> 0,
        poisoned |-> cells[x].self.mutex.poisoned,
        target |-> c, outcome |-> "none", ret |-> None]]
  /\ nops' = nops + 1
  /\ UNCHANGED cells
  /\ UNCHANGED <<sendVars, syncVars>>

\* c.with_mut(|v| *v += 1)
WithMutInc(t, c) == Issue(t, "with_mut", <<c>>)

\* x.with(|_| y.with_mut(|v| *v += 1)): a with_mut issued from inside the
\* closure body of a with; y may be x itself.
Nested(t, x, y) == Issue(t, "nested", <<x, y>>)

\* c.hash(state): self.with(|value| value.hash(state))
Hash(t, c) == Issue(t, "hash", <<c>>)

\* x == y: self.with(|a| other.with(|b| a == b))
Eq(t, x, y) == Issue(t, "eq", <<x, y>>)

\* x.partial_cmp(&y): self.with(|a| other.with(|b| a.partial_cmp(b)))
PartialCmp(t, x, y) == Issue(t, "partial_cmp", <<x, y>>)

\* x.cmp(&y): self.with(|a| other.with(|b| a.cmp(b)))
Cmp(t, x, y) == Issue(t, "cmp", <<x, y>>)

\* c.with(|_| panic!(..))
WithPanic(t, c) == Issue(t, "with_panic", <<c>>)

\* c.into_inner(): needs the cell by value, so no call on it is in progress.
SyncIntoInner(t, c) ==
  /\ \A u \in Threads : tr[u].pc = "idle"
  /\ nops < MaxCalls
  /\ cells[c].live
  /\ tr' = [tr EXCEPT ![t] =
       [pc |-> "idle", op |-> "into_inner", nest |-> <<c>>, depth |-> 0,
        poisoned |-> cells[c].self.mutex.poisoned,
        target |-> "none",
        outcome |-> "ok", ret |-> Some(SyncCell_into_inner(cells[c].self))]]
  /\ cells' = [cells EXCEPT ![c].live = FALSE]
  /\ nops' = nops + 1
  /\ UNCHANGED <<sendVars, syncVars>>

\* The call of thread t ended in a panic.
TraitPanicked(call) ==
  [call EXCEPT !.pc = "idle", !.depth = 0, !.outcome = "panic", !.ret = None]

\* Faulty variant: the mutex is re-entrant, its holder locks it again.
TraitLock_reentrant(t, relock_panics) ==
  /\ tr[t].pc = "lock"
  /\ LET c == tr[t].nest[tr[t].depth + 1]
         m == cells[c].self
     IN  /\ SyncCell_lock_ready(m) \/ m.mutex.held = t
         /\ IF SyncCell_lock(m, t).outcome = "panic"
              THEN /\ cells' = Unwind(cells, t)
                   /\ tr' = [tr EXCEPT ![t] = TraitPanicked(@)]
              ELSE /\ cells' = [cells EXCEPT ![c].self = SyncCell_lock(m, t).self]
                   /\ tr' = [tr EXCEPT
                        ![t].depth = @ + 1,
                        ![t].pc = IF tr[t].depth + 1 = Len(tr[t].nest)
                                    THEN "body" ELSE "lock"]
  /\ UNCHANGED nops
  /\ UNCHANGED <<sendVars, syncVars>>

\* let _guard = self.mutex.lock().unwrap() of the next with of the nest.
\* lock() on a mutex the calling thread itself holds never returns: it
\* deadlocks or panics (relock_panics), as the platform has it.
TraitLock(t, relock_panics) ==
  /\ tr[t].pc = "lock"
  /\ LET c == tr[t].nest[tr[t].depth + 1]
         m == cells[c].self
     IN  /\ SyncCell_lock_ready(m) \/ (m.mutex.held = t /\ relock_panics)
         /\ IF m.mutex.held = t \/ SyncCell_lock(m, t).outcome = "panic"
              THEN /\ cells' = Unwind(cells, t)
                   /\ tr' = [tr EXCEPT ![t] = TraitPanicked(@)]
              ELSE /\ cells' = [cells EXCEPT ![c].self = SyncCell_lock(m, t).self]
                   /\ tr' = [tr EXCEPT
                        ![t].depth = @ + 1,
                        ![t].pc = IF tr[t].depth + 1 = Len(tr[t].nest)
                                    THEN "body" ELSE "lock"]
  /\ UNCHANGED nops
  /\ UNCHANGED <<sendVars, syncVars>>

\* The innermost closure runs.
TraitBody(t) ==
  /\ tr[t].pc = "body"
  /\ IF tr[t].op = "with_panic"
       THEN /\ cells' = Unwind(cells, t)
            /\ tr' = [tr EXCEPT ![t] = TraitPanicked(@)]
       ELSE LET n == tr[t].nest
                a == UnsafeSyncCell_get(cells[n[1]].self.inner)
                b == UnsafeSyncCell_get(cells[n[Len(n)]].self.inner)
            IN  /\ tr' = [tr EXCEPT ![t].pc = "unlock",
                                    ![t].ret = TraitClosure(tr[t].op, a, b)]
                /\ cells' = IF tr[t].op \in {"with_mut", "nested"}
                              THEN [cells EXCEPT ![n[Len(n)]].self.inner =
                                      UnsafeSyncCell_store(@, b + 1)]
                              ELSE cells
  /\ UNCHANGED nops
  /\ UNCHANGED <<sendVars, syncVars>>

\* A with of the nest returns, innermost first: its _guard is dropped.  When
\* the call is let c = x.clone(), the name c is bound to the cell returned.
TraitUnlock(t) ==
  /\ tr[t].pc = "unlock"
  /\ LET c == tr[t].nest[tr[t].depth]
         unlocked == [cells EXCEPT ![c].self = SyncCell_unlock(@, FALSE)]
     IN  cells' = IF tr[t].depth = 1 /\ tr[t].target # "none"
                    THEN [unlocked EXCEPT ![tr[t].target] =
                            [live |-> TRUE, self |-> tr[t].ret[1]]]
                    ELSE unlocked
  /\ tr' = [tr EXCEPT
       ![t].depth = @ - 1,
       ![t].pc = IF tr[t].depth = 1 THEN "idle" ELSE "unlock",
       ![t].outcome = IF tr[t].depth = 1 THEN "ok" ELSE @]
  /\ UNCHANGED nops
  /\ UNCHANGED <<sendVars, syncVars>>

TraitNext ==
  \/ \E t \in Threads, c \in Cells : WithPanic(t, c)
  \/ \E t \in Threads, c \in Cells : Fmt(t, c)
  \/ \E t \in Threads, c \in Cells : Clone(t, c)
  \/ \E t \in Threads, c \in Cells : Hash(t, c)
  \/ \E t \in Threads, x \in Cells, c \in Cells : CloneAs(t, x, c)
  \/ \E t \in Threads, c \in Cells : WithMutInc(t, c)
  \/ \E t \in Threads, x \in Cells, y \in Cells : Nested(t, x, y)
  \/ \E t \in Threads, x \in Cells, y \in Cells : Eq(t, x, y)
  \/ \E t \in Threads, x \in Cells, y \in Cells : PartialCmp(t, x, y)
  \/ \E t \in Threads, x \in Cells, y \in Cells : Cmp(t, x, y)
  \/ \E t \in Threads, c \in Cells : SyncIntoInner(t, c)
  \/ \E t \in Threads, rp \in BOOLEAN : TraitLock(t, rp)
  \/ \E t \in Threads : TraitBody(t)
  \/ \E t \in Threads : TraitUnlock(t)

\* The calls that make, change, poison and consume a cell and its clone.
CloneNext ==
  \/ \E t \in Threads, c \in Cells : WithPanic(t, c)
  \/ \E t \in Threads, x \in Cells, c \in Cells : CloneAs(t, x, c)
  \/ \E t \in Threads, c \in Cells : WithMutInc(t, c)
  \/ \E t \in Threads, c \in Cells : SyncIntoInner(t, c)
  \/ \E t \in Threads, rp \in BOOLEAN : TraitLock(t, rp)
  \/ \E t \in Threads : TraitBody(t)
  \/ \E t \in Threads : TraitUnlock(t)

\* with / with_mut calls whose closures terminate normally; the with calls
\* go on for ever.
FairNext ==
  \/ \E t \in Threads : WithAgain(t)
  \/ \E t \in Threads : WithMut(t, "inc", 1)
  \/ \E t \in Threads : Lock(t)
  \/ \E t \in Threads : ClosureRead(t)
  \/ \E t \in Threads : ClosureLoad(t)
  \/ \E t \in Threads : ClosureStore(t)
  \/ \E t \in Threads : Return(t)

\* Calls whose closure body calls with / with_mut again, on the same cell
\* or on the other one, beside plain with_mut calls.
ReentryNext ==
  \/ \E t \in Threads, c \in Cells : WithMutInc(t, c)
  \/ \E t \in Threads, x \in Cells, y \in Cells : Nested(t, x, y)
  \/ \E t \in Threads, rp \in BOOLEAN : TraitLock(t, rp)
  \/ \E t \in Threads : TraitBody(t)
  \/ \E t \in Threads : TraitUnlock(t)

vars ==
  <<cell, creator, written, aborted, last, sync, th, applied, ncalls,
    cells, tr, nops>>

\* The SendCell / SendFuture operations, called from any thread.
Spec == Init /\ [][Next]_vars

\* Threads calling with / with_mut on one shared SyncCell.
SyncSpec == SyncStart /\ [][SyncNext]_vars

\* Threads calling trait methods and into_inner on two SyncCells.
TraitSpec == TraitStart /\ [][TraitNext]_vars

\* Threads cloning a SyncCell and calling with_mut, a panicking with and
\* into_inner on the original and on the clone.
CloneSpec == TraitStart /\ [][CloneNext]_vars

\* Threads calling with / with_mut for ever on one shared SyncCell, with
\* closures that terminate and a fair lock: a thread that waits for the lock
\* while it is free again and again gets it (strong fairness); a closure
\* that can go on does go on (weak fairness).
FairSyncSpec ==
  /\ SyncStart /\ [][FairNext]_vars
  /\ \A t \in Threads :
       /\ SF_vars(Lock(t))
       /\ WF_vars(ClosureRead(t)) /\ WF_vars(ClosureLoad(t))
       /\ WF_vars(ClosureStore(t)) /\ WF_vars(Return(t))

\* The AsRef, AsMut, Deref, DerefMut and Debug impls of SendCell, called
\* from any thread.
AccessSpec == Init /\ [][AccessNext]_vars

\* Threads calling with / with_mut from inside a closure body.
ReentrySpec == TraitStart /\ [][ReentryNext]_vars

\* ================================================================== claims
CheckedAccessors == {"get", "get_mut", "into_inner"}

\* C1: a checked accessor (get, get_mut, into_inner) called on a thread
\* other than the one the SendCell was constructed on never returns a
\* result: the call fails.
C1_ForeignCheckedAccessFails ==
  (last.op \in CheckedAccessors /\ last.t # last.creator)
    => (last.outcome # "ok" /\ last.ret = None)

\* A get on a foreign thread has panicked.
C1_Witness ==
  /\ last.op = "get" /\ last.t # last.creator /\ last.creator \in Threads
  /\ last.outcome = "panic"

\* C2: SendCell::new succeeds on every thread for every value, with or
\* without teardown, and get / get_mut / into_inner called on the
\* constructing thread succeed and yield the value the cell was constructed
\* with or the value last written through get_mut.
C2_OwnerAccessYieldsValue ==
  /\ last.op = "new" =>
       (last.outcome = "ok" /\ IsCell /\ cell.needs_drop = last.needs_drop)
  /\ IsCell => (Obj.inner # None /\ Obj.inner = Some(UnsafeSendCell_new_unchecked(written[1])))
  /\ (last.op \in CheckedAccessors /\ last.t = last.creator) =>
       (last.outcome = "ok" /\ last.ret # None /\ last.ret = last.written)

\* into_inner on the constructing thread has returned the value of a cell
\* whose type has teardown behaviour.
C2_Witness ==
  /\ last.op = "into_inner" /\ last.t = last.creator /\ last.needs_drop
  /\ last.outcome = "ok" /\ last.ret = last.written /\ last.ret # None

\* C3: at most one closure body (of with or of with_mut) is executing on
\* the SyncCell at any instant, and the thread executing it holds the lock.
C3_MutualExclusion ==
  \A t \in Threads : InBody(t) =>
    /\ sync.mutex.held = t
    /\ \A u \in Threads : InBody(u) => u = t

\* The body of one with is executing while another thread's with waits for
\* the lock.
C3_Witness ==
  \E t \in Threads, u \in Threads :
    /\ t # u
    /\ InBody(t) /\ th[t].op = "with"
    /\ th[u].pc = "lock" /\ th[u].op = "with"

AllReturned == \A t \in Threads : th[t].pc = "idle"

\* C4: when every with / with_mut call has returned, the wrapped counter
\* equals its initial value plus the sum of the increments of the with_mut
\* closures that returned: no update is lost.
C4_NoLostUpdate ==
  AllReturned => UnsafeSyncCell_get(sync.inner) = applied

\* Two threads have each completed an incrementing with_mut.
C4_Witness ==
  /\ AllReturned
  /\ \E t \in Threads, u \in Threads :
       /\ t # u
       /\ th[t].f = "inc" /\ th[t].outcome = "ok"
       /\ th[u].f = "inc" /\ th[u].outcome = "ok"
       /\ UnsafeSyncCell_get(sync.inner) >= th[t].arg + th[u].arg

Poisoned == sync.mutex.poisoned

\* C5: Poisoned is absorbing.  The call whose closure panicked fails and
\* leaves the lock poisoned; once the lock is poisoned no closure body is
\* executing or about to return, the lock stays poisoned, and every call
\* that gets past lock(), also one that was already waiting, fails without
\* entering its closure.
C5_PoisonAbsorbing ==
  /\ [](Poisoned => \A t \in Threads : th[t].pc \in {"idle", "lock"})
  /\ [](\A t \in Threads :
          (th[t].pc = "idle" /\ th[t].f = "panic") => th[t].outcome = "panic")
  /\ [][\A t \in Threads :
          (InBody(t) /\ th'[t].outcome = "panic") => Poisoned']_vars
  /\ [][Poisoned =>
          /\ Poisoned'
          /\ \A t \in Threads :
               (th[t].pc = "lock" /\ th'[t].pc # "lock") =>
                 (th'[t].pc = "idle" /\ th'[t].outcome = "panic"
                    /\ th'[t].ret = None)]_vars

\* After a closure panicked, a call with a closure that does not panic has
\* failed, while another call is still waiting for the lock.
C5_Witness ==
  /\ Poisoned
  /\ \E t \in Threads, u \in Threads :
       /\ t # u
       /\ th[t].pc = "idle" /\ th[t].f \in {"read", "inc"} /\ th[t].outcome = "panic"
       /\ th[u].pc = "lock"

SafeAccessors == {"get", "get_mut", "into_inner", "copying"}

\* C6: a safe operation of SendCell reads or writes the wrapped value only
\* on the thread the cell recorded: a safe operation that returned was
\* executed by the recorded thread.
C6_SafeAccessOnRecordedThread ==
  (last.op \in SafeAccessors /\ last.outcome = "ok") => last.t = last.recorded

\* Every "teardown" event of the call comes after a "panic" event.
PanicBeforeTeardown(events) ==
  \A i \in 1..Len(events) :
    events[i] = "teardown" => \E j \in 1..(i - 1) : events[j] = "panic"

\* C7: dropping a SendCell whose type has teardown behaviour on a thread
\* other than the constructing one fails the caller, and the failure is
\* raised before the wrapped value's teardown begins.
C7_ForeignDropFailsFirst ==
  (last.op = "drop" /\ last.needs_drop /\ last.t # last.creator) =>
    (last.outcome = "panic" /\ PanicBeforeTeardown(last.events))

\* A drop on a foreign thread has panicked, and the teardown ran after it.
C7_Witness ==
  /\ last.op = "drop" /\ last.needs_drop /\ last.t # last.creator
  /\ last.events = <<"panic", "teardown">>

\* C8: a poll of a SendFuture on a thread other than the constructing one
\* fails, whether or not the future was polled before, and leaves the
\* future (the wrapped computation included) unchanged.
C8_ForeignPollFails ==
  [][(last'.op = "poll" /\ last'.t # last'.creator) =>
       (last'.outcome = "panic" /\ last'.ret = None /\ cell' = cell)]_vars

\* A poll on a foreign thread has panicked on a future that had been polled
\* before.
C8_Witness ==
  /\ last.op = "poll" /\ last.t # last.creator /\ last.outcome = "panic"
  /\ IsFut /\ cell.first_poll = "Pending"

\* C9: a poll of a SendFuture on the constructing thread returns, gives
\* back what the wrapped computation's own poll gives back in the state it
\* is in, and leaves the wrapped computation in the state its own poll
\* leaves it in.
C9_OwnerPollDelegates ==
  [][(IsFut /\ last'.op = "poll" /\ last'.t = last'.creator) =>
       LET bare == Future_poll(UnsafeSendCell_get(Obj.inner))
       IN  /\ last'.outcome = "ok"
           /\ last'.ret = Some([poll |-> bare.poll, out |-> bare.out])
           /\ cell'.kind = "future"
           /\ UnsafeSendCell_get(cell'.obj[1].inner) = bare.fut
           /\ cell'.obj[1].thread_id = Obj.thread_id]_vars

\* The wrapper returned Pending on the first poll and has now returned
\* Ready with the computation's output.
C9_Witness ==
  /\ last.op = "poll" /\ last.t = last.creator /\ last.outcome = "ok"
  /\ cell.first_poll = "Pending"
  /\ last.ret = Some([poll |-> "Ready", out |-> Some(MaxVal)])

\* C10: dropping a SendFuture whose wrapped computation has teardown
\* behaviour on a thread other than the constructing one fails the caller
\* before that teardown runs.
C10_ForeignFutureDropFailsFirst ==
  (last.op = "drop_future" /\ last.needs_drop /\ last.t # last.creator) =>
    (last.outcome = "panic" /\ PanicBeforeTeardown(last.events))

\* C11: preserving_cell_thread, called from any thread, returns, and the
\* cell it returns records the identity of the source cell, the thread that
\* constructed it: checked access to a derived cell succeeds on that thread
\* and fails on every other thread, the deriving thread included.
C11_DerivedCellKeepsIdentity ==
  /\ last.op = "preserving_cell_thread" =>
       /\ last.outcome = "ok" /\ last.ret # None
       /\ last.ret[1].thread_id = last.creator
       /\ last.ret[1].thread_id = last.recorded
  /\ (IsCell /\ cell.deriver # 0) => Obj.thread_id = creator
  /\ (last.op \in CheckedAccessors /\ last.deriver # 0) =>
       (last.outcome = "ok" <=> last.t = last.creator)

\* A cell derived on a thread other than the constructing one has refused a
\* get on the deriving thread.
C11_Witness ==
  /\ last.op = "get" /\ last.deriver # 0 /\ last.deriver # last.creator
  /\ last.t = last.deriver /\ last.outcome = "panic"

\* The with / with_mut call of thread t is between taking the lock and
\* returning: its closure body is in flight.
InFlight(t) == th[t].pc \in {"body", "body2", "raise", "ret"}

\* C12: the lock of the SyncCell is held only while the closure body of a
\* with / with_mut call is in flight, and by the thread of that call: when
\* no body is in flight the lock is free (unlocked or poisoned), so a call
\* issued after an earlier call returned never waits for that call.
C12_LockHeldOnlyDuringCall ==
  /\ \A t \in Threads : ~InFlight(t) => sync.mutex.held # t
  /\ (\A t \in Threads : ~InFlight(t)) => SyncCell_lock_ready(sync)
  /\ sync.mutex.held # 0 =>
       (sync.mutex.held \in Threads /\ InFlight(sync.mutex.held))

\* A thread whose first call has ended is in the closure body of its second
\* call, while no other thread has made a call.
C12_Witness ==
  /\ ncalls = 2
  /\ \E t \in Threads :
       /\ InBody(t)
       /\ \A u \in Threads \ {t} : th[u].op = "none"

\* C13: the SyncCell is an atomic register over its closures.  A reading
\* closure sees, and its with returns, the initial value with the increments
\* of all with_mut calls completed before applied to it; an incrementing
\* closure reads that value and leaves it incremented by its own argument.
C13_AtomicRegister ==
  /\ [](\A t \in Threads :
          /\ (th[t].pc = "ret" /\ th[t].f = "read") => th[t].ret = Some(applied)
          /\ th[t].pc = "body2" => th[t].tmp = applied
          /\ (th[t].pc = "ret" /\ th[t].f = "inc") =>
               UnsafeSyncCell_get(sync.inner) = applied + th[t].arg)
  /\ [][\A t \in Threads :
          (th[t].pc = "ret" /\ th'[t].pc = "idle") =>
            (th'[t].outcome = "ok" /\ th'[t].ret = th[t].ret)]_vars

\* A with on one thread has returned a value that only a completed with_mut
\* of another thread can have produced.
C13_Witness ==
  \E t \in Threads, u \in Threads :
    /\ t # u
    /\ th[t].pc = "idle" /\ th[t].f = "read" /\ th[t].outcome = "ok"
    /\ th[t].ret # None /\ th[t].ret[1] > MaxVal
    /\ th[u].f = "inc" /\ th[u].outcome = "ok"

\* The thread that holds the lock thread t is waiting for (0: none, t is
\* not waiting or the lock is free).
WaitsFor(t) ==
  IF t \in Threads /\ tr[t].pc = "lock"
    THEN cells[tr[t].nest[tr[t].depth + 1]].self.mutex.held
    ELSE 0

RECURSIVE WaitChain(_, _)
WaitChain(t, k) == IF k = 0 THEN t ELSE WaitsFor(WaitChain(t, k - 1))

\* C14: the trait methods of SyncCell never deadlock: with no cell
\* poisoned, in no reachable state do the invocations of two or more threads
\* wait for each other's locks in a cycle.
C14_TraitsNeverDeadlock ==
  (\A c \in Cells : ~cells[c].self.mutex.poisoned) =>
    \A t \in Threads :
      ~(WaitsFor(t) \notin {0, t} /\ \E k \in 2..NThreads : WaitChain(t, k) = t)

UncheckedAccessors == {"get_unchecked", "get_unchecked_mut", "into_unchecked_inner"}

\* C16: the unchecked twins of SendCell complete on every thread, for
\* every contained type: none of them raises a thread-affinity failure.
C16_UncheckedNeverFails ==
  last.op \in UncheckedAccessors => last.outcome = "ok"

LeafOps ==
  {"unsafe_new", "unsafe_new_unchecked", "unsafe_from", "unsafe_get",
   "unsafe_get_mut", "unsafe_into_inner", "unsafe_into_future", "unsafe_poll",
   "unsafe_fmt", "unsafe_drop", "unsafe_sync_new", "unsafe_sync_from",
   "unsafe_sync_get", "unsafe_sync_get_mut_unchecked", "unsafe_sync_get_mut",
   "unsafe_sync_into_inner"}

\* C17 as stated: every operation on UnsafeSendCell, UnsafeSendFuture and
\* UnsafeSyncCell completes without failing, for every value, contained
\* type, state and calling thread.
C17_LeafOpsNeverFail ==
  last.op \in LeafOps => last.outcome = "ok"

\* C17 amended: every operation on the leaf types other than
\* UnsafeSendCell::new on a type with teardown behaviour completes without
\* failing, for every value, contained type, state and calling thread.
C17_LeafOpsFailOnlyInNew ==
  (last.op \in LeafOps /\ ~(last.op = "unsafe_new" /\ last.needs_drop)) =>
    last.outcome = "ok"

\* An UnsafeSendFuture whose computation has teardown behaviour has been
\* polled to completion on a thread other than the constructing one.
C17_Witness ==
  /\ last.op = "unsafe_poll" /\ last.t # last.creator /\ last.needs_drop
  /\ last.outcome = "ok" /\ last.ret # None /\ last.ret[1].poll = "Ready"

\* C18: UnsafeSendCell::new succeeds exactly when the type has no teardown
\* behaviour: with teardown it fails and no cell is produced, without it
\* returns a cell holding the value; new_unchecked succeeds for both.
C18_NewFailsExactlyOnTeardown ==
  /\ last.op = "unsafe_new" =>
       /\ last.outcome = "ok" <=> ~last.needs_drop
       /\ last.outcome # "ok" => (last.ret = None /\ cell.kind = "none")
       /\ last.outcome = "ok" =>
            /\ IsUnsafeCell /\ last.ret = cell.obj
            /\ Some(UnsafeSendCell_get(Obj)) = last.written
  /\ last.op = "unsafe_new_unchecked" =>
       /\ last.outcome = "ok" /\ IsUnsafeCell /\ last.ret = cell.obj
       /\ Some(UnsafeSendCell_get(Obj)) = last.written
       /\ cell.needs_drop = last.needs_drop

\* UnsafeSendCell::new has refused a type with teardown behaviour.
C18_Witness ==
  /\ last.op = "unsafe_new" /\ last.needs_drop /\ last.outcome = "panic"
  /\ cell.kind = "none"

\* C19: into_future consumes the cell, and the SendFuture it returns
\* carries the identity the cell recorded (the constructing thread, whoever
\* calls into_future) and the wrapped computation in the state it had.
C19_IntoFutureTransfers ==
  [][(IsCell /\ last'.op = "into_future") =>
       /\ cell'.kind # "cell"
       /\ last'.outcome = "ok" =>
            /\ cell'.kind = "future" /\ last'.ret = cell'.obj
            /\ cell'.obj[1].thread_id = Obj.thread_id
            /\ cell'.obj[1].thread_id = creator
            /\ UnsafeSendCell_get(cell'.obj[1].inner) = Held]_vars

\* into_future, called on a thread other than the constructing one on a
\* computation that had already progressed, has returned a SendFuture.
C19_Witness ==
  /\ last.op = "into_future" /\ last.t # last.creator /\ last.outcome = "ok"
  /\ IsFut /\ Obj.thread_id = last.creator
  /\ UnsafeSendCell_get(Obj.inner).ready

UncheckedWith == {"with_unchecked", "with_mut_unchecked"}

\* C21: with_unchecked and with_mut_unchecked bypass the lock: whatever
\* the state of the lock, the call returns the value at once, does not fail
\* and leaves the lock (and the cell) as it was.
C21_UncheckedBypassesLock ==
  [][\A t \in Threads :
       (th'[t] # th[t] /\ th'[t].op \in UncheckedWith) =>
         /\ th[t].pc = "idle" /\ th'[t].pc = "idle"
         /\ th'[t].outcome = "ok"
         /\ th'[t].ret = Some(UnsafeSyncCell_get(sync.inner))
         /\ sync' = sync]_vars

\* with_unchecked has returned the value a with_mut closure of another
\* thread has just written, while that thread still holds the lock.
C21_Witness ==
  /\ ncalls = 2
  /\ \E t \in Threads, u \in Threads :
       /\ t # u
       /\ th[u].pc = "ret" /\ th[u].f = "inc" /\ sync.mutex.held = u
       /\ th[t].op = "with_unchecked" /\ th[t].outcome = "ok"
       /\ th[t].ret = Some(UnsafeSyncCell_get(sync.inner))

\* C22: SyncCell::into_inner returns the current value, the initial value
\* as modified by every with_mut closure that ran on the cell, and does not
\* touch the lock.
C22_IntoInnerYieldsCurrentValue ==
  /\ [](\A t \in Threads :
          th[t].op = "into_inner" =>
            (th[t].outcome = "ok" /\ th[t].ret = Some(applied)))
  /\ [][\A t \in Threads :
          (th'[t].op = "into_inner" /\ th[t].op # "into_inner") =>
            sync' = sync]_vars

\* into_inner has returned a value that a with_mut call of another thread
\* helped produce.
C22_Witness ==
  \E t \in Threads, u \in Threads :
    /\ t # u
    /\ th[t].op = "into_inner" /\ th[t].outcome = "ok"
    /\ th[u].f = "inc" /\ th[u].outcome = "ok"
    /\ th[t].ret = Some(applied) /\ applied > MaxVal

\* The value wrapped by the SyncCell named c.
ValueOf(c) == UnsafeSyncCell_get(cells[c].self.inner)

\* C23: x == y on SyncCells whose locks are not poisoned returns, and
\* returns true exactly when the wrapped values are equal, also when x and y
\* are the same cell: the comparison never waits for a lock that its own
\* thread holds, and the result it computes is the equality of the values.
C23_EqAgreesWithValues ==
  \A t \in Threads :
    (tr[t].op = "eq" /\ ~tr[t].poisoned) =>
      /\ ~(tr[t].pc = "lock" /\ WaitsFor(t) = t)
      /\ (tr[t].pc = "unlock" /\ tr[t].depth = Len(tr[t].nest)) =>
           tr[t].ret = Some(ValueOf(tr[t].nest[1]) = ValueOf(tr[t].nest[2]))

\* The cells the call of thread t names, before or after a step.
Named(call) ==
  {call.nest[i] : i \in 1..Len(call.nest)} \cup ({call.target} \cap Cells)

\* Where a call stands: a step of the call changes it (a step of into_inner,
\* which is atomic, is told by the cell it consumes).
Position(call) == <<call.pc, call.op, call.nest, call.depth, call.outcome>>

\* C24: a clone is an independent cell.  The cell clone returns wraps a
\* value equal to the original's at the time of cloning and has a lock of
\* its own, unlocked and not poisoned (while the original's lock is held by
\* the cloning thread); and no call changes the value, the lock or the
\* poison flag of a cell it does not name: a with_mut, a lock or a panic on
\* one of the two cells leaves the other as it was.
C24_CloneIsIndependent ==
  /\ [](\A t \in Threads :
          (tr[t].op = "clone" /\ tr[t].pc = "unlock") =>
            /\ cells[tr[t].nest[1]].self.mutex.held = t
            /\ tr[t].ret # None
            /\ UnsafeSyncCell_get(tr[t].ret[1].inner) = ValueOf(tr[t].nest[1])
            /\ tr[t].ret[1].mutex = [held |-> 0, poisoned |-> FALSE])
  /\ [][\A t \in Threads :
          (tr[t].op = "clone" /\ tr[t].pc = "unlock" /\ tr'[t].pc = "idle"
             /\ tr[t].target # "none") =>
            /\ cells'[tr[t].target] = [live |-> TRUE, self |-> tr[t].ret[1]]
            /\ cells'[tr[t].nest[1]].self.inner = cells[tr[t].nest[1]].self.inner]_vars
  /\ [][\A c \in Cells :
          cells'[c] # cells[c] =>
            \E u \in Threads :
              /\ c \in Named(tr[u]) \cup Named(tr'[u])
              /\ \/ Position(tr'[u]) # Position(tr[u])
                 \/ tr'[u].op = "into_inner" /\ cells[c].live /\ ~cells'[c].live]_vars

\* A clone of one cell was bound to the other name, a with_mut on the clone
\* has then changed its value, and the original still has the value it was
\* cloned with.
C24_Witness ==
  \E t \in Threads, u \in Threads :
    /\ t # u
    /\ tr[u].op = "clone" /\ tr[u].outcome = "ok" /\ tr[u].target \in Cells
    /\ tr[t].op = "with_mut" /\ tr[t].outcome = "ok"
    /\ tr[t].nest = <<tr[u].target>>
    /\ cells[tr[u].target].live /\ cells[tr[u].nest[1]].live
    /\ ValueOf(tr[u].nest[1]) = UnsafeSyncCell_get(tr[u].ret[1].inner)
    /\ ValueOf(tr[u].target) = ValueOf(tr[u].nest[1]) + 1

\* The operations at whose end a SendCell is dropped with nothing but the
\* drop-time check between the caller and success.
DroppingOps == {"drop", "into_unchecked_inner", "into_future"}

SlotOps == {"get_unchecked", "get_unchecked_mut", "copying"}

\* C27: the slot of a SendCell is populated whenever an operation can be
\* invoked on it: the accessors that unwrap the slot never find it empty
\* (they fail on the thread check only), and into_unchecked_inner and
\* into_future fail only in the drop-time check of the emptied cell.
C27_SlotPopulated ==
  /\ IsCell => (cell.obj # None /\ Obj.inner # None)
  /\ last.op \in SlotOps => last.outcome = "ok"
  /\ (last.op \in {"get", "get_mut"} /\ last.t = last.recorded) =>
       last.outcome = "ok"
  /\ (last.op \in {"into_unchecked_inner", "into_future"} /\ last.outcome # "ok") =>
       (last.needs_drop /\ last.t # last.recorded /\ last.events[1] = "panic"
          /\ last.outcome = "panic")

\* A write through get_unchecked_mut on a thread other than the recorded one
\* has returned, and the slot holds the value written.
C27_Witness ==
  /\ last.op = "get_unchecked_mut" /\ last.t # last.recorded /\ last.outcome = "ok"
  /\ IsCell /\ Obj.inner # None /\ Some(Held) = written
  /\ last.written # written

\* C28: a poll of an UnsafeSendFuture, on whatever thread, returns, gives
\* back what the wrapped computation's own poll gives back in the state it
\* is in, and leaves the computation in the state its own poll leaves it in:
\* the wrapper goes through the same Pending / Ready sequence.
C28_UnsafePollDelegates ==
  [][(IsUnsafeFut /\ last'.op = "unsafe_poll") =>
       LET bare == Future_poll(Obj.f0)
       IN  /\ last'.outcome = "ok"
           /\ last'.ret = Some([poll |-> bare.poll, out |-> bare.out])
           /\ cell'.kind = "unsafe_future"
           /\ cell'.obj[1].f0 = bare.fut
           /\ cell.first_poll = "Pending" => bare.poll = "Ready"]_vars

\* The UnsafeSendFuture returned Pending on its first poll and has now
\* returned Ready with the computation's output, on a thread other than the
\* constructing one.
C28_Witness ==
  /\ last.op = "unsafe_poll" /\ last.t # last.creator
  /\ cell.first_poll = "Pending"
  /\ last.ret = Some([poll |-> "Ready", out |-> Some(MaxVal)])

\* C29: into_future makes no identity check: it completes on any thread for
\* any wrapped computation.
C29_IntoFutureNeverFails ==
  last.op = "into_future" => last.outcome = "ok"

\* C30: when the drop-time check of a SendCell fails on a foreign thread,
\* the wrapped value's teardown is not executed on that thread, neither
\* before the failure nor while it unwinds.
C30_FailedDropSkipsTeardown ==
  (last.op = "drop" /\ last.outcome = "panic" /\ last.t # last.recorded) =>
    (last.torn # last.t /\ \A i \in 1..Len(last.events) : last.events[i] # "teardown")

\* C31: a checked into_inner called on a foreign thread produces a single
\* failure of the calling context: the drop of the consumed cell, while the
\* failed assertion unwinds, raises no second failure (which would terminate
\* the process), for types with and without teardown behaviour.
C31_ForeignIntoInnerFailsOnce ==
  (last.op = "into_inner" /\ last.t # last.recorded) =>
    (last.outcome = "panic" /\ last.events[1] = "panic"
       /\ \A i \in 2..Len(last.events) : last.events[i] \notin {"panic", "abort"})

\* A get or get_mut has just been refused on a foreign thread.
Refused ==
  last.op \in {"get", "get_mut"} /\ last.outcome = "panic" /\ last.t # last.recorded

\* C32: a failed checked access leaves the cell unchanged and usable.  The
\* get or get_mut that fails on a foreign thread changes neither the value
\* nor the recorded identity, and the get, get_mut or into_inner that
\* follows it on the recorded thread succeeds and returns that value.
C32_FailedAccessLeavesCell ==
  /\ [][(IsCell /\ last'.op \in {"get", "get_mut"} /\ last'.outcome # "ok") =>
          (cell' = cell /\ written' = written /\ creator' = creator)]_vars
  /\ [][(Refused /\ IsCell /\ last'.op \in CheckedAccessors
            /\ last'.t = last'.recorded) =>
          /\ last'.recorded = last.recorded
          /\ last'.outcome = "ok"
          /\ last'.ret = Some(Held)
          /\ last'.ret = written]_vars

\* A get_mut has been refused on a foreign thread, and the cell still holds
\* the value last written to it and the identity it recorded.
C32_Witness ==
  /\ Refused /\ last.op = "get_mut"
  /\ IsCell /\ Obj.thread_id = last.recorded /\ last.recorded = creator
  /\ Some(Held) = written /\ Held = [v |-> MaxVal]

\* The call issues a with / with_mut on a cell from inside the closure body
\* of a with on the same cell.
Reentrant(call) ==
  \E i \in 1..Len(call.nest), j \in 1..Len(call.nest) :
    i < j /\ call.nest[i] = call.nest[j]

\* C33: the lock of a SyncCell is not re-entrant.  A with / with_mut issued
\* from inside a closure body on the same cell never executes its closure
\* body: the call never gets past the nested lock, and when it ends it has
\* failed (otherwise it waits forever); so a thread holds every cell it is
\* inside of, and is inside each cell at most once.
C33_LockNotReentrant ==
  \A t \in Threads :
    /\ Reentrant(tr[t]) =>
         /\ tr[t].pc \notin {"body", "unlock"}
         /\ tr[t].depth < Len(tr[t].nest)
         /\ tr[t].pc = "idle" => (tr[t].outcome = "panic" /\ tr[t].ret = None)
    /\ \A i \in 1..tr[t].depth :
         /\ cells[tr[t].nest[i]].self.mutex.held = t
         /\ \A j \in 1..tr[t].depth : tr[t].nest[i] = tr[t].nest[j] => i = j

\* A with_mut issued from inside a with on the same cell waits for the lock
\* its own thread holds, while the value is the one another thread's
\* completed with_mut left.
C33_Witness ==
  \E t \in Threads, u \in Threads :
    /\ t # u
    /\ tr[t].op = "nested" /\ Reentrant(tr[t])
    /\ tr[t].pc = "lock" /\ tr[t].depth = 1 /\ WaitsFor(t) = t
    /\ tr[u].op = "with_mut" /\ tr[u].outcome = "ok" /\ tr[u].nest = <<tr[t].nest[1]>>
    /\ ValueOf(tr[t].nest[1]) = MaxVal + 1

\* C34: under a fair lock, with closures that terminate normally and do not
\* re-enter the cell, every with / with_mut call issued by any of the
\* threads eventually runs its closure and returns.
C34_EveryCallReturns ==
  \A t \in Threads :
    /\ (th[t].pc = "lock") ~> (th[t].pc = "ret")
    /\ (th[t].pc = "ret") ~> (th[t].pc = "idle" /\ th[t].outcome = "ok")

\* A with call waits for the lock while the with_mut closure of another
\* thread, which has made its last with_mut, is in flight.
C34_Witness ==
  \E t \in Threads, u \in Threads :
    /\ t # u /\ ncalls = MaxCalls
    /\ th[t].pc = "lock" /\ th[t].op = "with"
    /\ th[u].op = "with_mut" /\ InFlight(u) /\ sync.mutex.held = u

\* C35: a with_mut whose closure terminates abnormally does not roll the
\* value back: what the closure wrote before it failed stays in the cell
\* when the call unwinds, and is what into_inner and the unchecked
\* accessors return afterwards.
C35_NoRollbackOnPanic ==
  /\ [][\A t \in Threads :
          (th[t].pc = "raise" /\ th'[t].pc = "idle") =>
            /\ th'[t].outcome = "panic"
            /\ sync'.inner = sync.inner
            /\ UnsafeSyncCell_get(sync'.inner) = applied + th[t].arg
            /\ sync'.mutex.poisoned]_vars
  /\ [][\A t \in Threads :
          (th'[t] # th[t] /\ th'[t].op \in UncheckedWith \cup {"into_inner"}) =>
            /\ th'[t].ret = Some(UnsafeSyncCell_get(sync.inner))
            /\ (\A u \in Threads : th[u].pc = "idle") => th'[t].ret = Some(applied)]_vars

\* After a with_mut closure wrote and then panicked, into_inner has
\* returned the value the closure wrote.
C35_Witness ==
  \E t \in Threads, u \in Threads :
    /\ th[u].f = "inc_panic" /\ th[u].pc = "idle" /\ th[u].outcome = "panic"
    /\ th[t].op = "into_inner" /\ ncalls = 2
    /\ \E v \in Vals : th[t].ret = Some(v + th[u].arg)

\* The followed object is a SendCell or a SendFuture: it records a thread.
Records(c) == c.kind \in {"cell", "future"}

\* C36: the recorded identity of a SendCell or SendFuture is fixed at
\* construction.  It is the constructing thread, whichever threads the
\* object is used on; no call, successful or failed, changes it; and the
\* cell or future that copying, preserving_cell_thread or into_future
\* returns records the identity of the cell it was made from.
C36_IdentityFixed ==
  /\ [](Records(cell) => Obj.thread_id = creator)
  /\ [][(Records(cell) /\ Records(cell')) =>
          cell'.obj[1].thread_id = Obj.thread_id]_vars
  /\ []((last.op \in {"copying", "preserving_cell_thread", "into_future"}
           /\ last.outcome = "ok") =>
          (last.ret # None /\ last.ret[1].thread_id = last.recorded))

\* A future made from a cell that another thread derived has been polled to
\* completion on the constructing thread, and still records that thread.
C36_Witness ==
  /\ IsFut /\ cell.deriver # 0 /\ cell.deriver # creator
  /\ last.op = "poll" /\ last.outcome = "ok" /\ last.t = creator
  /\ Obj.thread_id = creator /\ cell.first_poll = "Pending"
  /\ last.ret[1].poll = "Ready"

TraitAccessors == {"as_ref", "as_mut", "deref", "deref_mut", "fmt"}

\* C37: the trait-based accessors of SendCell (AsRef, AsMut, Deref,
\* DerefMut, Debug) are gated by the identity check of get / get_mut: on the
\* recorded thread they succeed and expose the current value (Debug: its
\* text), on any other thread they fail the caller and expose nothing.
C37_TraitAccessorsGated ==
  last.op \in TraitAccessors =>
    /\ last.outcome = "ok" <=> last.t = last.recorded
    /\ last.outcome # "ok" => (last.outcome = "panic" /\ last.ret = None)
    /\ (last.outcome = "ok" /\ last.op # "fmt") => last.ret = last.written
    /\ (last.outcome = "ok" /\ last.op = "fmt") =>
         last.ret = Some(T_fmt(last.written[1]))

\* A write through DerefMut has been refused on a foreign thread, and the
\* cell still holds the value written on the recorded thread.
C37_Witness ==
  /\ last.op = "deref_mut" /\ last.t # last.recorded /\ last.outcome = "panic"
  /\ IsCell /\ Some(Held) = written /\ Held = [v |-> MaxVal]

\* The constructors of UnsafeSendCell that are not marked unsafe.
SafeConstructors == {"unsafe_new", "unsafe_from"}

\* C38: no safe construction path of UnsafeSendCell (new, From::from,
\* Default::default) produces a cell holding a value whose type has
\* teardown behaviour: such a cell comes from new_unchecked only.
C38_SafePathsRefuseTeardown ==
  (last.op \in SafeConstructors /\ last.outcome = "ok") => ~last.needs_drop

====
